---- MODULE Spec2Model ----
(***************************************************************************)
(* NVIDIA Driver Dumper (src/src/main.py): the scan loop createNVDD, the   *)
(* page extractor getPageInfo and the JSON record store                    *)
(* (check_and_create_database, addDriver).                                 *)
(*                                                                         *)
(* Text is a sequence of tokens: a whitespace token (" ", "\n"), the       *)
(* separator "|", or a run of other characters.  A Python value is None    *)
(* or a str; both are sets of at most one element, so that None, the empty *)
(* string and a non-empty string are three different values.               *)
(***************************************************************************)
EXTENDS Integers, Sequences, FiniteSets, TLC

VARIABLES pc, start, i, scans, driver_url, data_dir, database_file,
          response, outcome, new_driver, requested

vars == <<pc, start, i, scans, driver_url, data_dir, database_file,
          response, outcome, new_driver, requested>>

----------------------------------------------------------------------------
(* Bounds of the model *)

MaxPages == 2

MaxScans == 2

MaxRows == 2

(* Program constants *)

Ceiling == 1000000

MenuStart == 71510

BaseUrl == "https://www.nvidia.com/Download/driverResults.aspx/"

----------------------------------------------------------------------------
(* Python values *)

None == {}

Some(x) == {x}

Str(s) == Some(s)

The(v) == CHOOSE s \in v : TRUE

Whitespace == {" ", "\n"}

RECURSIVE LStrip(_)
LStrip(t) ==
    IF t # <<>> /\ Head(t) \in Whitespace THEN LStrip(Tail(t)) ELSE t

RECURSIVE RStrip(_)
RStrip(t) ==
    IF t # <<>> /\ t[Len(t)] \in Whitespace
    THEN RStrip(SubSeq(t, 1, Len(t) - 1))
    ELSE t

Strip(t) == RStrip(LStrip(t))

RECURSIVE SplitFirst(_)
SplitFirst(t) ==
    IF t = <<>> \/ Head(t) = "|"
    THEN <<>>
    ELSE <<Head(t)>> \o SplitFirst(Tail(t))

----------------------------------------------------------------------------
(* JSON documents: json.dump and json.load *)

JNull == [json |-> "null"]

JString(s) == [json |-> "string", value |-> s]

DumpValue(v) == IF v = None THEN JNull ELSE JString(The(v))

LoadValue(j) == IF j.json = "null" THEN None ELSE Str(j.value)

DumpObject(d) == [k \in DOMAIN d |-> DumpValue(d[k])]

LoadObject(o) == [k \in DOMAIN o |-> LoadValue(o[k])]

JsonDump(db) ==
    [k \in DOMAIN db |->
        IF k = "drivers"
        THEN [n \in DOMAIN db[k] |-> DumpObject(db[k][n])]
        ELSE db[k]]

JsonLoad(doc) ==
    [k \in DOMAIN doc |->
        IF k = "drivers"
        THEN [n \in DOMAIN doc[k] |-> LoadObject(doc[k][n])]
        ELSE doc[k]]

----------------------------------------------------------------------------
(* The record store *)

InitialStructure == [drivers |-> <<>>]

CheckAndCreateAlwaysWrite(dir, file) ==
    [data_dir |-> TRUE, database_file |-> Str(JsonDump(InitialStructure))]

CheckAndCreateRepair(dir, file) ==
    [data_dir |-> TRUE,
     database_file |->
        IF file = None \/ "drivers" \notin DOMAIN The(file)
        THEN Str(JsonDump(InitialStructure))
        ELSE file]

check_and_create_database(dir, file) ==
    [data_dir |-> TRUE,
     database_file |->
        IF file = None THEN Str(JsonDump(InitialStructure)) ELSE file]

NewDriver(name, version, cuda, os, date, size, lang, url) ==
    [name |-> name, version |-> version, cuda_version |-> cuda,
     target_os |-> os, release_date |-> date, file_size |-> size,
     language |-> lang, url |-> url]

addDriverPrepend(file, driver) ==
    IF file = None
    THEN [raised |-> "FileNotFoundError", database_file |-> file]
    ELSE LET database == JsonLoad(The(file)) IN
         IF "drivers" \notin DOMAIN database
         THEN [raised |-> "KeyError", database_file |-> file]
         ELSE [raised |-> "none",
               database_file |->
                  Str(JsonDump([database EXCEPT
                                   !.drivers = <<driver>> \o @]))]

addDriver(file, driver) ==
    IF file = None
    THEN [raised |-> "FileNotFoundError", database_file |-> file]
    ELSE LET database == JsonLoad(The(file)) IN
         IF "drivers" \notin DOMAIN database
         THEN [raised |-> "KeyError", database_file |-> file]
         ELSE [raised |-> "none",
               database_file |->
                  Str(JsonDump([database EXCEPT
                                   !.drivers = Append(@, driver)]))]

----------------------------------------------------------------------------
(* The page extractor *)

RequestException == {"ConnectionError", "Timeout", "HTTPError"}

(* Response.raise_for_status raises HTTPError for a 4xx or 5xx status and  *)
(* for no other; every exception of requests.get is a RequestException.   *)
RaiseForStatusNever(status_code) == FALSE

RaiseForStatus(status_code) == status_code >= 400 /\ status_code < 600

RequestsGet(r) ==
    IF r.error # "none" THEN r.error
    ELSE IF RaiseForStatus(r.status_code) THEN "HTTPError"
    ELSE "none"

CaughtRequestOnly(exc) == exc \in RequestException

Caught(exc) == exc \in RequestException \cup {"AttributeError"}

ErrorMessageIgnored(p) == FALSE

ErrorMessage(p) == p.lblErrorMessage = "inRegion"

DriverName(p) ==
    IF p.pageTitle # None
    THEN Str(Strip(SplitFirst(The(p.pageTitle))))
    ELSE None

DriverVersion(p) ==
    IF p.tdVersion # None THEN Str(Strip(The(p.tdVersion))) ELSE None

CudaDriverVersionUnchecked(p) ==
    IF p.tdCudaToolkits # None
    THEN Str(Strip(The(p.tdCudaToolkits)))
    ELSE None

CudaDriverVersion(p) ==
    IF p.tdCudaToolkits # None /\ Strip(The(p.tdCudaToolkits)) # <<>>
    THEN Str(Strip(The(p.tdCudaToolkits)))
    ELSE None

ReleaseDate(p) ==
    IF p.tdReleaseDate # None THEN Str(Strip(The(p.tdReleaseDate))) ELSE None

NoRowFields == [operating_system |-> None, language |-> None, file_size |-> None]

ScanRowAnyLength(tds, acc) ==
    IF Len(tds) >= 2
    THEN LET name == Strip(tds[1])
             data == Strip(tds[2])
         IN  IF name = <<"Operating System:">>
             THEN [acc EXCEPT !.operating_system = Str(data)]
             ELSE IF name = <<"Language:">>
             THEN [acc EXCEPT !.language = Str(data)]
             ELSE IF name = <<"File Size:">>
             THEN [acc EXCEPT !.file_size = Str(data)]
             ELSE acc
    ELSE acc

ScanRow(tds, acc) ==
    IF Len(tds) = 2
    THEN LET name == Strip(tds[1])
             data == Strip(tds[2])
         IN  IF name = <<"Operating System:">>
             THEN [acc EXCEPT !.operating_system = Str(data)]
             ELSE IF name = <<"Language:">>
             THEN [acc EXCEPT !.language = Str(data)]
             ELSE IF name = <<"File Size:">>
             THEN [acc EXCEPT !.file_size = Str(data)]
             ELSE acc
    ELSE acc

RECURSIVE ScanRows(_, _)
ScanRows(tr_elements, acc) ==
    IF tr_elements = <<>>
    THEN acc
    ELSE ScanRows(Tail(tr_elements), ScanRow(Head(tr_elements), acc))

ExtractTitleRequired(p, url) ==
    IF ~p.rightContent \/ (~ErrorMessage(p) /\ p.pageTitle = None)
    THEN [raised |-> "AttributeError", invalid |-> FALSE, new_driver |-> None]
    ELSE IF ErrorMessage(p)
    THEN [raised |-> "none", invalid |-> TRUE, new_driver |-> None]
    ELSE LET rows == ScanRows(p.tr, NoRowFields)
         IN  [raised |-> "none", invalid |-> FALSE,
              new_driver |->
                 Some(NewDriver(DriverName(p), DriverVersion(p),
                                CudaDriverVersion(p), rows.operating_system,
                                ReleaseDate(p), rows.file_size,
                                rows.language, Str(url)))]

Extract(p, url) ==
    IF ~p.rightContent
    THEN [raised |-> "AttributeError", invalid |-> FALSE, new_driver |-> None]
    ELSE IF ErrorMessage(p)
    THEN [raised |-> "none", invalid |-> TRUE, new_driver |-> None]
    ELSE LET rows == ScanRows(p.tr, NoRowFields)
         IN  [raised |-> "none", invalid |-> FALSE,
              new_driver |->
                 Some(NewDriver(DriverName(p), DriverVersion(p),
                                CudaDriverVersion(p), rows.operating_system,
                                ReleaseDate(p), rows.file_size,
                                rows.language, Str(url)))]

getPageInfo(r, url, file) ==
    LET fetched == RequestsGet(r) IN
    IF fetched # "none"
    THEN [raised |-> fetched, outcome |-> "FetchError",
          new_driver |-> None, database_file |-> file]
    ELSE LET x == Extract(r.page, url) IN
         IF x.raised # "none"
         THEN [raised |-> x.raised, outcome |-> "StructureMissing",
               new_driver |-> None, database_file |-> file]
         ELSE IF x.invalid
         THEN [raised |-> "none", outcome |-> "InvalidDriverPage",
               new_driver |-> None, database_file |-> file]
         ELSE LET w == addDriver(file, The(x.new_driver)) IN
              [raised |-> w.raised,
               outcome |-> IF w.raised = "none" THEN "Stored" ELSE w.raised,
               new_driver |-> x.new_driver,
               database_file |-> w.database_file]

Url(n) == BaseUrl \o ToString(n)

----------------------------------------------------------------------------
(* Inputs: the pages the server may answer with *)

SeqsUpTo(S, n) == UNION {[1..k -> S] : k \in 0..n}

Titles == {None, Some(<<"GeForce RTX Driver", " ", "|", " ", "NVIDIA">>)}

Versions == {None, Some(<<"\n", "551.23", " ">>)}

CudaToolkits == {None, Some(<<>>), Some(<<" ", "\n">>), Some(<<" ", "12.4">>)}

ReleaseDates == {None, Some(<<"2024.1.24">>)}

Rows ==
    {<< <<" ", "Operating System:", "\n">>, <<" ", "Windows 11", " ">> >>,
     << <<"Operating System:">>, <<"Linux 64-bit">> >>,
     << <<"operating system:">>, <<"FreeBSD x64">> >>,
     << <<"Operating System">>, <<"Solaris">> >>,
     << <<"Language:">>, <<"English (US)">> >>,
     << <<"File Size:">>, <<"600 MB">> >>,
     << <<"Version:">>, <<"551.23">> >>,
     << <<"Language:">> >>,
     << <<"File Size:">>, <<"1 GB">>, <<"Operating System:">> >>}

Page(region, label, title, version, cuda, date, rows) ==
    [rightContent |-> region, lblErrorMessage |-> label, pageTitle |-> title,
     tdVersion |-> version, tdCudaToolkits |-> cuda, tdReleaseDate |-> date,
     tr |-> rows]

DriverPages ==
    {Page(TRUE, "absent", title, version, cuda, date, rows) :
        title \in Titles, version \in Versions, cuda \in CudaToolkits,
        date \in ReleaseDates, rows \in SeqsUpTo(Rows, MaxRows)}
    \cup {Page(TRUE, "elsewhere", title, None, cuda, None, rows) :
        title \in Titles, cuda \in CudaToolkits, rows \in SeqsUpTo(Rows, 1)}

ErrorPages ==
    {Page(TRUE, "inRegion", title, version, cuda, date, rows) :
        title \in Titles, version \in Versions, cuda \in CudaToolkits,
        date \in ReleaseDates, rows \in SeqsUpTo(Rows, 1)}

BarePages ==
    {Page(FALSE, label, title, None, None, None, <<>>) :
        label \in {"absent", "elsewhere"}, title \in Titles}

FullPage ==
    Page(TRUE, "absent", Some(<<"GeForce RTX Driver", " ", "|", " ", "NVIDIA">>),
         Some(<<"\n", "551.23", " ">>), Some(<<" ", "12.4">>),
         Some(<<"2024.1.24">>),
         << << <<"Operating System:">>, <<"Linux 64-bit">> >>,
            << <<"Language:">>, <<"English (US)">> >>,
            << <<"File Size:">>, <<"600 MB">> >> >>)

EmptyPage == Page(TRUE, "absent", None, None, None, None, <<>>)

ErrorPage == Page(TRUE, "inRegion", None, None, None, None, <<>>)

BarePage == Page(FALSE, "absent", None, None, None, None, <<>>)

TransportErrors == {[error |-> "ConnectionError"], [error |-> "Timeout"]}

Http(status_code, page) ==
    [error |-> "none", status_code |-> status_code, page |-> page]

ScanResponses ==
    TransportErrors
    \cup {Http(200, FullPage), Http(200, EmptyPage), Http(200, ErrorPage),
          Http(200, BarePage), Http(404, BarePage)}

AllResponses ==
    TransportErrors
    \cup {Http(200, p) : p \in DriverPages \cup ErrorPages \cup BarePages}
    \cup {Http(s, p) : s \in {204, 304, 404, 503},
                       p \in {FullPage, EmptyPage, ErrorPage, BarePage}}

Starts == {MenuStart, Ceiling - 1}

StoredBefore ==
    NewDriver(Str(<<"GeForce RTX Driver">>), Str(<<"551.23">>), None,
              Str(<<"Linux 64-bit">>), None, None, None, Str(Url(MenuStart)))

OwnDocuments ==
    {JsonDump(InitialStructure), JsonDump([drivers |-> <<StoredBefore>>])}

ForeignDocuments == {[version |-> JString(<<"0.0.1">>)]}

----------------------------------------------------------------------------
(* Operations *)

CreateNVDD(s) ==
    /\ pc = "menu"
    /\ scans < MaxScans
    /\ LET fs == check_and_create_database(data_dir, database_file) IN
       /\ data_dir' = fs.data_dir
       /\ database_file' = fs.database_file
    /\ start' = s
    /\ i' = s
    /\ scans' = scans + 1
    /\ requested' = <<>>
    /\ pc' = "loop"
    /\ UNCHANGED <<driver_url, response, outcome, new_driver>>

LoopIter ==
    /\ pc = "loop"
    /\ i < Ceiling
    /\ i - start < MaxPages
    /\ driver_url' = Url(i)
    /\ pc' = "getPageInfo"
    /\ UNCHANGED <<start, i, scans, data_dir, database_file, response,
                   outcome, new_driver, requested>>

GetPageInfo(r) ==
    /\ pc = "getPageInfo"
    /\ LET res == getPageInfo(r, driver_url, database_file) IN
       /\ response' = Some(r)
       /\ requested' = Append(requested, driver_url)
       /\ new_driver' = res.new_driver
       /\ database_file' = res.database_file
       /\ IF res.raised = "none" \/ Caught(res.raised)
          THEN pc' = "returned" /\ outcome' = res.outcome
          ELSE pc' = "crashed" /\ outcome' = res.raised
    /\ UNCHANGED <<start, i, scans, driver_url, data_dir>>

LoopNext ==
    /\ pc = "returned"
    /\ i' = i + 1
    /\ pc' = "loop"
    /\ UNCHANGED <<start, scans, driver_url, data_dir, database_file,
                   response, outcome, new_driver, requested>>

LoopEnd ==
    /\ pc = "loop"
    /\ i = Ceiling
    /\ pc' = "menu"
    /\ UNCHANGED <<start, i, scans, driver_url, data_dir, database_file,
                   response, outcome, new_driver, requested>>

ExitProgram ==
    /\ pc = "menu"
    /\ pc' = "exited"
    /\ UNCHANGED <<start, i, scans, driver_url, data_dir, database_file,
                   response, outcome, new_driver, requested>>

ScanPage == \E r \in ScanResponses : GetPageInfo(r)

AnyPage == \E r \in AllResponses : GetPageInfo(r)

Menu == \E s \in Starts : CreateNVDD(s)

----------------------------------------------------------------------------
(* Specifications *)

InitWith(documents) ==
    /\ pc = "menu"
    /\ start = MenuStart
    /\ i = MenuStart
    /\ scans = 0
    /\ driver_url = Url(MenuStart)
    /\ database_file \in {None} \cup {Some(d) : d \in documents}
    /\ data_dir \in (IF database_file = None THEN BOOLEAN ELSE {TRUE})
    /\ response = None
    /\ outcome = "none"
    /\ new_driver = None
    /\ requested = <<>>

Init == InitWith(OwnDocuments)

Next == Menu \/ LoopIter \/ ScanPage \/ LoopNext \/ LoopEnd \/ ExitProgram

Spec == Init /\ [][Next]_vars

InitForeign == InitWith(OwnDocuments \cup ForeignDocuments)

SpecForeign == InitForeign /\ [][Next]_vars

InitExtract ==
    /\ pc = "getPageInfo"
    /\ start = MenuStart
    /\ i = start
    /\ scans = 1
    /\ driver_url = Url(i)
    /\ database_file \in {Some(d) : d \in OwnDocuments}
    /\ data_dir = TRUE
    /\ response = None
    /\ outcome = "none"
    /\ new_driver = None
    /\ requested = <<>>

NextExtract == AnyPage

SpecExtract == InitExtract /\ [][NextExtract]_vars

----------------------------------------------------------------------------
(* Vocabulary of the properties *)

Parsed(r) == r.error = "none" /\ r.status_code \notin 400..599

Drivers(file) == JsonLoad(The(file)).drivers

HasArray(file) == file # None /\ "drivers" \in DOMAIN The(file)

Blank(text) == \A k \in 1..Len(text) : text[k] \in Whitespace

TrimsTo(text, label) ==
    \E k \in 1..Len(text) :
        /\ text[k] = label
        /\ \A m \in (1..Len(text)) \ {k} : text[m] \in Whitespace

Matching(rows, label) ==
    {k \in 1..Len(rows) : Len(rows[k]) = 2 /\ TrimsTo(rows[k][1], label)}

Last(S) == CHOOSE k \in S : \A m \in S : m <= k

Assigned(rows, label) ==
    IF Matching(rows, label) = {}
    THEN None
    ELSE Str(Strip(rows[Last(Matching(rows, label))][2]))

PageOutcomes == {"FetchError", "StructureMissing", "InvalidDriverPage", "Stored"}

----------------------------------------------------------------------------
(* C1: a parsed page without the rightContent div ends getPageInfo with    *)
(* StructureMissing: the AttributeError is caught inside getPageInfo,      *)
(* addDriver is not called and the store document is unchanged.            *)
C1_StructureMissing ==
    [][(/\ pc = "getPageInfo"
        /\ response' # None
        /\ Parsed(The(response'))
        /\ ~The(response').page.rightContent)
       => /\ pc' = "returned"
          /\ outcome' = "StructureMissing"
          /\ new_driver' = None
          /\ database_file' = database_file]_vars

C1_Witness ==
    /\ pc = "returned"
    /\ outcome = "StructureMissing"
    /\ response # None
    /\ ~The(response).page.rightContent
    /\ The(response).page.lblErrorMessage = "elsewhere"
    /\ The(response).page.pageTitle # None

(* C2: a parsed page whose content region holds the lblErrorMessage span   *)
(* ends getPageInfo with InvalidDriverPage, whatever else it contains:     *)
(* addDriver is not called and the store document is unchanged.            *)
C2_InvalidDriverPage ==
    [][(/\ pc = "getPageInfo"
        /\ response' # None
        /\ Parsed(The(response'))
        /\ The(response').page.rightContent
        /\ The(response').page.lblErrorMessage = "inRegion")
       => /\ pc' = "returned"
          /\ outcome' = "InvalidDriverPage"
          /\ new_driver' = None
          /\ database_file' = database_file]_vars

C2_Witness ==
    /\ pc = "returned"
    /\ outcome = "InvalidDriverPage"
    /\ new_driver = None
    /\ response # None
    /\ The(response).page.pageTitle # None
    /\ The(response).page.tdVersion # None
    /\ The(response).page.tdCudaToolkits # None
    /\ The(response).page.tr # <<>>

C5_AppendOnly ==
    [][IF pc = "getPageInfo" /\ new_driver' # None
       THEN /\ database_file # None
            /\ database_file' # None
            /\ Drivers(database_file')
                  = Append(Drivers(database_file), The(new_driver'))
       ELSE database_file = None \/ database_file' = database_file]_vars

C5_Witness ==
    /\ pc = "returned"
    /\ outcome = "Stored"
    /\ database_file # None
    /\ Len(Drivers(database_file)) = 3
    /\ Drivers(database_file)[1].url = Drivers(database_file)[2].url
    /\ Drivers(database_file)[3] = The(new_driver)

(* C6, as stated: whenever a write is attempted the document exists and    *)
(* has its drivers array, and addDriver never fails on a missing file or   *)
(* a missing drivers key.                                                  *)
C6_Original ==
    (pc \in {"returned", "crashed"} /\ new_driver # None)
    => /\ outcome \notin {"KeyError", "FileNotFoundError"}
       /\ HasArray(database_file)

(* C6, amended: an absent file is created as {"drivers": []} before the    *)
(* first write, so a write never meets a missing file; a document that has *)
(* the array keeps it; a document that exists without the array is never   *)
(* repaired, and only on such a document does addDriver raise KeyError.    *)
C6_RepairsAbsentFileOnly ==
    [][/\ pc' = "getPageInfo" => database_file' # None
       /\ database_file = None
             => database_file' \in {None, Some([drivers |-> <<>>])}
       /\ HasArray(database_file) => HasArray(database_file')
       /\ (database_file # None /\ ~HasArray(database_file))
             => database_file' = database_file
       /\ outcome' = "KeyError"
             => database_file # None /\ ~HasArray(database_file)
       /\ outcome' # "FileNotFoundError"]_vars

C6_Witness ==
    /\ pc = "crashed"
    /\ outcome = "KeyError"
    /\ new_driver # None
    /\ database_file # None
    /\ ~HasArray(database_file)

(* C7: check_and_create_database creates the directory and the document    *)
(* {"drivers": []} when they are absent, leaves an existing document as it *)
(* is, and a second call changes nothing.                                  *)
C7_Idempotent ==
    /\ [](LET once == check_and_create_database(data_dir, database_file)
          IN  check_and_create_database(once.data_dir, once.database_file) = once)
    /\ [][(pc = "menu" /\ pc' = "loop")
          => /\ data_dir'
             /\ database_file = None
                   => database_file' = Some([drivers |-> <<>>])
             /\ database_file # None => database_file' = database_file]_vars

C7_Witness ==
    /\ pc = "loop"
    /\ scans = 2
    /\ i = start
    /\ database_file # None
    /\ Len(Drivers(database_file)) >= 2

(* C8: a parsed page with the content region and no error label in it is   *)
(* always stored: getPageInfo appends exactly one record, which carries    *)
(* the page URL, whichever of the fields are present.                      *)
C8_AbsentFieldsStored ==
    [][(/\ pc = "getPageInfo"
        /\ response' # None
        /\ Parsed(The(response'))
        /\ The(response').page.rightContent
        /\ The(response').page.lblErrorMessage # "inRegion")
       => /\ pc' = "returned"
          /\ outcome' = "Stored"
          /\ new_driver' # None
          /\ The(new_driver').url = Str(driver_url)
          /\ Len(The(database_file').drivers)
                = Len(The(database_file).drivers) + 1
          /\ The(database_file').drivers[Len(The(database_file').drivers)].url
                = JString(driver_url)]_vars

C8_Witness ==
    /\ pc = "returned"
    /\ outcome = "Stored"
    /\ response # None
    /\ The(response).page.pageTitle = None
    /\ new_driver = Some(NewDriver(None, None, None, None, None, None, None,
                                   Str(driver_url)))

(* C9: a CUDA anchor whose text is empty or blank is stored like a missing *)
(* anchor: cuda_version is null, and no stored record has the empty string *)
(* as its cuda_version.                                                    *)
C9_EmptyCudaIsAbsent ==
    (pc = "returned" /\ outcome = "Stored")
    => LET p == The(response).page
           stored == The(database_file).drivers
       IN  /\ (p.tdCudaToolkits = None \/ Blank(The(p.tdCudaToolkits)))
                 => /\ The(new_driver).cuda_version = None
                    /\ stored[Len(stored)].cuda_version = JNull
           /\ \A n \in 1..Len(stored) :
                 stored[n].cuda_version # JString(<<>>)

C9_Witness ==
    /\ pc = "returned"
    /\ outcome = "Stored"
    /\ The(response).page.tdCudaToolkits = Some(<<" ", "\n">>)
    /\ The(new_driver).cuda_version = None

(* C10: target_os, language and file_size are those of the last two-cell   *)
(* row whose trimmed label is exactly 'Operating System:', 'Language:' or  *)
(* 'File Size:'; every other row leaves the three fields as they were.     *)
C10_ExactLabels ==
    (pc = "returned" /\ outcome = "Stored")
    => LET rows == The(response).page.tr
           d == The(new_driver)
       IN  /\ d.target_os = Assigned(rows, "Operating System:")
           /\ d.language = Assigned(rows, "Language:")
           /\ d.file_size = Assigned(rows, "File Size:")

C10_Witness ==
    /\ pc = "returned"
    /\ outcome = "Stored"
    /\ The(response).page.tr
          = << << <<"Operating System:">>, <<"Linux 64-bit">> >>,
               << <<"operating system:">>, <<"FreeBSD x64">> >> >>
    /\ The(new_driver).target_os = Str(<<"Linux 64-bit">>)
    /\ The(new_driver).language = None

====
